---- MODULE Spec2Model ----
(***************************************************************************)
(* Swipe-to-shop client (React pages) against its hosted relational store. *)
(* The store's tables, constraints and the pages' handlers are modelled;   *)
(* every persistence call is one step: the store applies (or rejects) the  *)
(* request and the awaiting handler runs on to its next await.             *)
(***************************************************************************)
EXTENDS Integers, Sequences, FiniteSets, Bags, TLC

\* ------------------------------------------------------------------ bounds
MaxInFlight == 2      \* handlers suspended on a persistence call at one time
MaxLog == 1           \* rows of swipe_interactions
MaxDrag == 101        \* largest horizontal displacement of a drag
MaxRecords == 5       \* records the log holds when the analytics are read
MaxSold == 2          \* records the log holds when the seller page opens

\* --------------------------------------------------------------- constants
SwipeThreshold == 100 \* Math.abs(info.offset.x) > 100

Tabs == {"t1"}                  \* browser tabs signed in with the account
Users == {"u1"}                 \* accounts that shop
Sellers == {"s1", "s2"}         \* accounts that sell; s1 signs in as no@gmail.com
Accounts == Users \cup Sellers
Roles == {"user", "seller"}     \* CREATE TYPE user_role AS ENUM ('user', 'seller')
NoSession == "null"
ShopRoutes == {"swipe", "cart", "saved"}   \* the shopper's pages
NoDrag == [tab |-> "-", card |-> "-", x |-> 0]

\* rows of the products table the shop opens with, newest first
\* (order("created_at", desc))
Catalog == << [id |-> "p1", name |-> "Tee", seller_id |-> "s1"],
              [id |-> "p2", name |-> "Mug", seller_id |-> "s1"] >>

\* gen_random_uuid() of products: the ids of Catalog and one more for a new row
Products == {Catalog[i].id : i \in 1..Len(Catalog)} \cup {"p3"}

Offsets == {0 - MaxDrag, 0 - SwipeThreshold, 0, SwipeThreshold, MaxDrag}

\* useState<Analytics>({totalViews: 0, totalSwipesRight: 0, totalSwipesLeft: 0})
NoAnalytics == [totalViews |-> 0, totalSwipesRight |-> 0, totalSwipesLeft |-> 0]

NoId == <<"-", 0>>
Idle == [kind |-> "idle", tab |-> "-", uid |-> "-", product |-> "-",
         direction |-> "-", pc |-> "-", rowId |-> NoId, todo |-> <<>>, live |-> FALSE, name |-> "-",
         items |-> <<>>]

VARIABLES
    flow,               \* which build of the feed page runs: "precheck" | "upsert"
    observe,            \* whether toast and net are kept; no action reads either
    cart_items,         \* table cart_items: set of [id, user_id, product_id, quantity]
    saved_items,        \* table saved_items: set of [id, user_id, product_id]
    swipe_interactions, \* table swipe_interactions, in insertion order
    route,              \* per tab: "auth" | "swipe" | "cart" | "saved"
    session,            \* per tab: the mounted page's session state (user id or null)
    products,           \* per tab: Swipe's products state (sequence of product ids)
    swipedProducts,     \* per tab: Swipe's swipedProducts state
    cartItems,          \* per tab: Cart's cartItems state
    savedItems,         \* per tab: SavedItems' savedItems state
    toast,              \* titles of the notifications the latest step showed
    net,                \* how the latest step's persistence call came back, if it made one
    drag,               \* the active pointer gesture on a ProductCard, or NoDrag
    handlers,           \* bag of handlers suspended on a persistence call
    account,            \* per tab: the account the browser signs in with
    products_table,     \* table products, newest first: [id, name, seller_id]
    profiles,           \* table profiles: the role of each account
    analytics           \* per tab: Seller's analytics state

dbvars == <<cart_items, saved_items, swipe_interactions>>
viewvars == <<route, session, products, swipedProducts, cartItems, savedItems>>
\* what no handler of the shopper's pages writes
offpage == <<flow, account, products_table, profiles, analytics>>
vars == <<flow, observe, cart_items, saved_items, swipe_interactions, route, session,
          products, swipedProducts, cartItems, savedItems, toast, net, drag, handlers,
          account, products_table, profiles, analytics>>

\* the account a browser session is signed in with
TabUser(t) == account[t]

\* ----------------------------------------------------------------- helpers
Abs(x) == IF x < 0 THEN 0 - x ELSE x

RECURSIVE SelectSeq2(_, _)
\* Array.prototype.filter by membership of the id
SelectSeq2(s, keep) ==
    IF s = <<>> THEN <<>>
    ELSE IF Head(s) \in keep THEN <<Head(s)>> \o SelectSeq2(Tail(s), keep)
         ELSE SelectSeq2(Tail(s), keep)

Range(s) == {s[i] : i \in 1..Len(s)}

\* all orders in which a select without ORDER BY may return a set of rows
Orders(S) == {s \in [1..Cardinality(S) -> S] : Range(s) = S}

HandlerSet == BagToSet(handlers)
InFlight == BagCardinality(handlers)
Spawn(h) == handlers (+) SetToBag({h})
Finish(h) == handlers (-) SetToBag({h})
Step(h, h2) == (handlers (-) SetToBag({h})) (+) SetToBag({h2})

\* gen_random_uuid(). An id is written <<product, n>>; ids are only ever compared
\* for equality with the ids of stored rows, so a new row takes the least n no stored
\* row of the table holds, and every client copy of a deleted row's id is rewritten
\* to Gone(product) when the row is deleted (it can match no row ever again)
FreshId(rows, product) ==
    <<product, CHOOSE n \in 1..(Cardinality(rows) + 1) :
                   <<product, n>> \notin {r.id : r \in rows}>>

Gone(product) == <<product, 0>>
RowIds(rows) == {r.id : r \in rows}
ScrubRow(r, rows) == IF r.id \in RowIds(rows) THEN r ELSE [r EXCEPT !.id = Gone(r.product_id)]
ScrubHandler(h, cart, saved) ==
    IF \/ h.kind \in {"remove", "move"} /\ h.rowId \notin RowIds(saved)
       \/ h.kind = "removeCart" /\ h.rowId \notin RowIds(cart)
    THEN [h EXCEPT !.rowId = Gone(h.product)] ELSE h
ScrubCartItems(list, cart) == [t \in DOMAIN list |->
                                 [i \in 1..Len(list[t]) |-> ScrubRow(list[t][i], cart)]]
ScrubSavedItems(list, saved) == [t \in DOMAIN list |-> {ScrubRow(r, saved) : r \in list[t]}]
ScrubHandlers(hs, cart, saved) == BagOfAll(LAMBDA h : ScrubHandler(h, cart, saved), hs)

\* ------------------------------------------------------- persistence layer
\* cart_items without its UNIQUE constraint
NoCartConstraint(user, product) == FALSE

\* cart_items UNIQUE(user_id, product_id)
CartDuplicate(user, product) ==
    \E r \in cart_items : r.user_id = user /\ r.product_id = product

\* saved_items without its UNIQUE constraint
NoSavedConstraint(user, product) == FALSE

\* saved_items UNIQUE(user_id, product_id)
SavedDuplicate(user, product) ==
    \E r \in saved_items : r.user_id = user /\ r.product_id = product

\* swipe_interactions.action CHECK (action IN ('left', 'right'))
ActionAllowed(action) == action \in {"left", "right"}

\* insert into swipe_interactions; ok = the request reached the store and came back
LogInsertOk(ok, action) == ok /\ ActionAllowed(action)

LogInsert(ok, user, product, action) ==
    swipe_interactions' =
        IF LogInsertOk(ok, action)
        THEN Append(swipe_interactions,
                    [user_id |-> user, product_id |-> product, action |-> action])
        ELSE swipe_interactions

\* insert into cart_items: rejected on a duplicate (user_id, product_id)
CartInsertOk(ok, user, product) == ok /\ ~CartDuplicate(user, product)

CartInsert(ok, user, product, quantity) ==
    cart_items' =
        IF CartInsertOk(ok, user, product)
        THEN cart_items \cup {[id |-> FreshId(cart_items, product), user_id |-> user,
                               product_id |-> product, quantity |-> quantity]}
        ELSE cart_items

\* an upsert that merges on (user_id, product_id) and so is never refused
CartUpsertMerges(ok, user, product) == ok

\* an upsert that adds the quantity to the pair's row when the pair has one
CartUpsertAdds(ok, user, product, quantity) ==
    cart_items' =
        IF ~ok THEN cart_items
        ELSE IF CartDuplicate(user, product)
        THEN {IF r.user_id = user /\ r.product_id = product
              THEN [r EXCEPT !.quantity = @ + quantity] ELSE r : r \in cart_items}
        ELSE cart_items \cup {[id |-> FreshId(cart_items, product), user_id |-> user,
                               product_id |-> product, quantity |-> quantity]}

\* upsert() with no onConflict and no id in the payload: INSERT ... ON CONFLICT (id),
\* the generated id never conflicts, so a duplicate (user_id, product_id) is an error
CartUpsertOk(ok, user, product) == CartInsertOk(ok, user, product)

CartUpsert(ok, user, product, quantity) ==
    cart_items' =
        IF CartUpsertOk(ok, user, product)
        THEN cart_items \cup {[id |-> FreshId(cart_items, product), user_id |-> user,
                               product_id |-> product, quantity |-> quantity]}
        ELSE cart_items

SavedInsertOk(ok, user, product) == ok /\ ~SavedDuplicate(user, product)

SavedInsert(ok, user, product) ==
    saved_items' =
        IF SavedInsertOk(ok, user, product)
        THEN saved_items \cup {[id |-> FreshId(saved_items, product), user_id |-> user,
                                product_id |-> product]}
        ELSE saved_items

SavedUpsertOk(ok, user, product) == SavedInsertOk(ok, user, product)

SavedUpsert(ok, user, product) == SavedInsert(ok, user, product)

\* delete from saved_items where user_id = .. and product_id = ..
SavedDeletePair(ok, user, product) ==
    saved_items' =
        IF ok THEN {r \in saved_items : ~(r.user_id = user /\ r.product_id = product)}
        ELSE saved_items

\* delete from saved_items where id = .. (policy: auth.uid() = user_id)
SavedDeleteId(ok, user, id) ==
    saved_items' =
        IF ok THEN {r \in saved_items : ~(r.id = id /\ r.user_id = user)}
        ELSE saved_items

\* delete from cart_items where id = .. (policy: auth.uid() = user_id)
CartDeleteId(ok, user, id) ==
    cart_items' =
        IF ok THEN {r \in cart_items : ~(r.id = id /\ r.user_id = user)}
        ELSE cart_items

\* the delete limited to one row
CartDeleteUserOne(ok, user) ==
    cart_items' = IF ok /\ (\E r \in cart_items : r.user_id = user)
                  THEN cart_items \ {CHOOSE r \in cart_items : r.user_id = user}
                  ELSE cart_items

\* delete from cart_items where user_id = ..
CartDeleteUser(ok, user) ==
    cart_items' = IF ok THEN {r \in cart_items : r.user_id # user} ELSE cart_items

\* ------------------------------------------------------------ notifications
Toast(titles) == toast' = IF observe THEN titles ELSE <<>>
NoToast == toast' = <<>>

\* ok: the request reached the store and its reply reached the client
Net(ok) ==
    /\ net' = IF observe THEN (IF ok THEN "ok" ELSE "failed") ELSE "none"
    /\ UNCHANGED observe

\* a step that calls nothing and shows nothing
Quiet == toast' = <<>> /\ net' = "none" /\ UNCHANGED observe

\* --------------------------------------------------------------- feed page
\* product names a catalog row or the add-product form may carry
Names == {"Tee", "Ripped Jeans", "RIPPED JEANS", " Yes "}

\* String.prototype.trim over Names
trim(name) == CASE name = " Yes " -> "Yes" [] name = " Tee" -> "Tee" [] OTHER -> name

\* String.prototype.toLowerCase over Names and their trimmed forms
toLowerCase(name) ==
    CASE name = "Tee" -> "tee"
      [] name = "Mug" -> "mug"
      [] name = "Ripped Jeans" -> "ripped jeans"
      [] name = "RIPPED JEANS" -> "ripped jeans"
      [] name = "Yes" -> "yes"
      [] name = " Yes " -> " yes "
      [] name = "TEE" -> "tee"
      [] name = " Tee" -> " tee"
      [] OTHER -> name

\* (p.name || "").trim().toLowerCase()
TrimLower(name) == toLowerCase(trim(name))

removedNames == {"yes", "hr", "slim jean", "ripped jeans", "knit sweater",
                 "trechn coart", "classic white shirt", "wireless headphones"}

RECURSIVE DedupeByRawName(_, _)
\* the seen-set filter keyed by the name as stored
DedupeByRawName(rows, seen) ==
    IF rows = <<>> THEN <<>>
    ELSE IF Head(rows).name \in seen THEN DedupeByRawName(Tail(rows), seen)
         ELSE <<Head(rows)>> \o DedupeByRawName(Tail(rows), seen \cup {Head(rows).name})

RECURSIVE Dedupe(_, _)
\* the seen-set filter: the first row of each normalized name is kept
Dedupe(rows, seen) ==
    IF rows = <<>> THEN <<>>
    ELSE IF TrimLower(Head(rows).name) \in seen THEN Dedupe(Tail(rows), seen)
         ELSE <<Head(rows)>> \o Dedupe(Tail(rows), seen \cup {TrimLower(Head(rows).name)})

\* the feed's filters without the deny list
FeedFilterNoDenyList(rows) == Dedupe(rows, {})

\* fetchProducts' filters: the trimmed lower-case name against removedNames, then
\* the seen-set filter
FeedFilter(rows) ==
    Dedupe(SelectSeq(rows, LAMBDA p : TrimLower(p.name) \notin removedNames), {})

Ids(rows) == [i \in 1..Len(rows) |-> rows[i].id]

\* products.filter(p => !swipedProducts.has(p.id))
visibleProducts(t) == SelectSeq2(products[t], Products \ swipedProducts[t])

\* room left in the bounded log for one more decision
PendingLog == Cardinality({h \in HandlerSet : h.pc = "log"})
CanSpawn == InFlight < MaxInFlight /\ Len(swipe_interactions) + PendingLog < MaxLog

\* the two directions exchanged
DirectionSwapped(x) == IF x > 0 THEN "left" ELSE "right"

\* info.offset.x > 0 ? "right" : "left"
Direction(x) == IF x > 0 THEN "right" ELSE "left"

\* the comparison taken with >= in place of >
CommitsAtThreshold(x) == Abs(x) >= SwipeThreshold

\* Math.abs(info.offset.x) > 100
Commits(x) == Abs(x) > SwipeThreshold

\* handleSwipe without its setSwipedProducts call
handleSwipeUnmarked(t, p, dir) ==
    IF session[t] = NoSession
    THEN UNCHANGED <<swipedProducts, handlers>>
    ELSE /\ UNCHANGED swipedProducts
         /\ handlers' = Spawn([kind |-> IF flow = "precheck" THEN "swipe" ELSE "swipeUpsert",
                               tab |-> t, uid |-> session[t], product |-> p,
                               direction |-> dir, pc |-> "log", rowId |-> NoId,
                               todo |-> <<>>, live |-> FALSE, name |-> "-",
                               items |-> <<>>])

\* handleSwipe up to its first await: guard, mark as swiped, issue the log insert
handleSwipe(t, p, dir) ==
    IF session[t] = NoSession
    THEN UNCHANGED <<swipedProducts, handlers>>
    ELSE /\ swipedProducts' = [swipedProducts EXCEPT ![t] = @ \cup {p}]
         /\ handlers' = Spawn([kind |-> IF flow = "precheck" THEN "swipe" ELSE "swipeUpsert",
                               tab |-> t, uid |-> session[t], product |-> p,
                               direction |-> dir, pc |-> "log", rowId |-> NoId,
                               todo |-> <<>>, live |-> FALSE, name |-> "-",
                               items |-> <<>>])

\* ProductCard.handleDragEnd of card p with info.offset.x = x
handleDragEnd(t, p, x) ==
    /\ Commits(x) => CanSpawn
    /\ IF Commits(x)
       THEN handleSwipe(t, p, Direction(x))
       ELSE UNCHANGED <<swipedProducts, handlers>>
    /\ Quiet
    /\ UNCHANGED <<offpage, dbvars, route, session, products, cartItems, savedItems>>

\* a rendered card: the page shows visibleProducts only with a session
Rendered(t, p) ==
    route[t] = "swipe" /\ session[t] # NoSession /\ p \in Range(visibleProducts(t))

\* a whole drag gesture on a rendered card, released at offset x
DragGesture(t, p, x) ==
    /\ drag = NoDrag /\ Rendered(t, p)
    /\ handleDragEnd(t, p, x)
    /\ UNCHANGED drag

\* the gesture of a card that left the page: the pointer is still down, and
\* its release reaches no handleDragEnd
Unmounted(d) == [d EXCEPT !.card = "-", !.x = 0]

\* pointer-down on a rendered card
DragStart(t, p) ==
    /\ drag = NoDrag /\ Rendered(t, p)
    /\ drag' = [tab |-> t, card |-> p, x |-> 0]
    /\ Quiet
    /\ UNCHANGED <<offpage, dbvars, viewvars, handlers>>

\* pointer-move: the card follows the pointer
DragMove(x) ==
    /\ drag # NoDrag /\ drag.card \in Products
    /\ x # drag.x
    /\ drag' = [drag EXCEPT !.x = x]
    /\ Quiet
    /\ UNCHANGED <<offpage, dbvars, viewvars, handlers>>

\* pointer-release of the gesture in progress
DragRelease ==
    /\ drag # NoDrag
    /\ IF drag.card \in Products
       THEN handleDragEnd(drag.tab, drag.card, drag.x)
       ELSE Quiet /\ UNCHANGED <<offpage, dbvars, viewvars, handlers>>
    /\ drag' = NoDrag

\* the key handler deciding on the first fetched product, swiped or not
handleKeyPressFirstFetched(t, key) ==
    /\ route[t] = "swipe"
    /\ Len(products[t]) # 0
    /\ CanSpawn
    /\ LET firstProduct == products[t][1]
       IN  /\ handleSwipe(t, firstProduct, IF key = "ArrowLeft" THEN "left" ELSE "right")
           /\ drag' = IF drag.tab = t /\ drag.card = firstProduct /\ session[t] # NoSession
                      THEN Unmounted(drag) ELSE drag
    /\ Quiet
    /\ UNCHANGED <<offpage, dbvars, route, session, products, cartItems, savedItems>>

\* keydown ArrowLeft / ArrowRight: decide on the first visible product
handleKeyPress(t, key) ==
    /\ route[t] = "swipe"
    /\ Len(visibleProducts(t)) # 0
    /\ CanSpawn
    /\ LET firstProduct == visibleProducts(t)[1]
       IN  /\ handleSwipe(t, firstProduct, IF key = "ArrowLeft" THEN "left" ELSE "right")
           /\ drag' = IF drag.tab = t /\ drag.card = firstProduct /\ session[t] # NoSession
                      THEN Unmounted(drag) ELSE drag
    /\ UNCHANGED <<offpage, dbvars, route, session, products, cartItems, savedItems>>
    /\ Quiet


\* ------------------------------------------------ handleSwipe, after awaits
\* handleSwipe returning when the log insert reports an error
AfterLogReturns(h, error) ==
    IF error THEN Finish(h)
    ELSE Step(h, [h EXCEPT !.pc = IF h.kind = "swipe"
                     THEN (IF h.direction = "right" THEN "cartSelect" ELSE "savedDelete")
                     ELSE (IF h.direction = "right" THEN "cartUpsert" ELSE "savedUpsert")])

\* the call handleSwipe issues once the log insert has returned; its error is not read
AfterLog(h, error) ==
    Step(h, [h EXCEPT !.pc = IF h.kind = "swipe"
                     THEN (IF h.direction = "right" THEN "cartSelect" ELSE "savedDelete")
                     ELSE (IF h.direction = "right" THEN "cartUpsert" ELSE "savedUpsert")])

\* await supabase.from("swipe_interactions").insert({user_id, product_id, action})
SwipeLog(h, ok) ==
    /\ Net(ok)
    /\ h.kind \in {"swipe", "swipeUpsert"} /\ h.pc = "log"
    /\ LogInsert(ok, h.uid, h.product, h.direction)
    /\ handlers' = AfterLog(h, ~LogInsertOk(ok, h.direction))
    /\ UNCHANGED <<offpage, cart_items, saved_items, viewvars, drag>>
    /\ NoToast

\* !existing || existing.length === 0, existing being null when the select failed
NeedsInsert(ok, user, product) == ~ok \/ ~CartDuplicate(user, product)

\* const { data: existing }: an empty list when the select found no row, null
\* when it failed; the handler goes on to the insert in both cases
Existing(ok) == IF ok THEN "cartInsert" ELSE "cartInsertNull"

\* select id from cart_items where user_id, product_id limit 1; no insert when found
SwipeCartSelect(h, ok) ==
    /\ Net(ok)
    /\ h.kind = "swipe" /\ h.pc = "cartSelect"
    /\ IF NeedsInsert(ok, h.uid, h.product)
       THEN /\ handlers' = Step(h, [h EXCEPT !.pc = Existing(ok)])
            /\ NoToast
       ELSE /\ handlers' = Finish(h)
            /\ Toast(<<"Added to cart!">>)
    /\ UNCHANGED <<offpage, dbvars, viewvars, drag>>

\* the cart branch without its error toast
CartToastSilent(error) == IF error THEN <<>> ELSE <<"Added to cart!">>

\* if (error) toast.error("Error adding to cart") else toast.success("Added to cart!")
CartToast(error) == IF error THEN <<"Error adding to cart">> ELSE <<"Added to cart!">>

\* insert({user_id, product_id, quantity: 1}); error = res.error
SwipeCartInsert(h, ok) ==
    /\ Net(ok)
    /\ h.kind = "swipe" /\ h.pc \in {"cartInsert", "cartInsertNull"}
    /\ CartInsert(ok, h.uid, h.product, 1)
    /\ Toast(CartToast(~CartInsertOk(ok, h.uid, h.product)))
    /\ handlers' = Finish(h)
    /\ UNCHANGED <<offpage, saved_items, swipe_interactions, viewvars, drag>>

\* delete from saved_items where user_id, product_id; the result is not read
SwipeSavedDelete(h, ok) ==
    /\ Net(ok)
    /\ h.kind = "swipe" /\ h.pc = "savedDelete"
    /\ SavedDeletePair(ok, h.uid, h.product)
    /\ handlers' = ScrubHandlers(Step(h, [h EXCEPT !.pc = "savedInsert"]),
                                 cart_items, saved_items')
    /\ savedItems' = ScrubSavedItems(savedItems, saved_items')
    /\ NoToast
    /\ UNCHANGED <<offpage, cart_items, swipe_interactions, route, session, products,
                   swipedProducts, cartItems, drag>>

SavedToast(error) == IF error THEN <<"Error saving item">> ELSE <<"Saved for later">>

\* insert({user_id, product_id}) into saved_items
SwipeSavedInsert(h, ok) ==
    /\ Net(ok)
    /\ h.kind = "swipe" /\ h.pc = "savedInsert"
    /\ SavedInsert(ok, h.uid, h.product)
    /\ Toast(SavedToast(~SavedInsertOk(ok, h.uid, h.product)))
    /\ handlers' = Finish(h)
    /\ UNCHANGED <<offpage, cart_items, swipe_interactions, viewvars, drag>>

\* Swipe.tsx: cart_items.upsert({user_id, product_id, quantity: 1})
SwipeCartUpsert(h, ok) ==
    /\ Net(ok)
    /\ h.kind = "swipeUpsert" /\ h.pc = "cartUpsert"
    /\ CartUpsert(ok, h.uid, h.product, 1)
    /\ Toast(CartToast(~CartUpsertOk(ok, h.uid, h.product)))
    /\ handlers' = Finish(h)
    /\ UNCHANGED <<offpage, saved_items, swipe_interactions, viewvars, drag>>

\* Swipe.tsx: saved_items.upsert({user_id, product_id})
SwipeSavedUpsert(h, ok) ==
    /\ Net(ok)
    /\ h.kind = "swipeUpsert" /\ h.pc = "savedUpsert"
    /\ SavedUpsert(ok, h.uid, h.product)
    /\ Toast(SavedToast(~SavedUpsertOk(ok, h.uid, h.product)))
    /\ handlers' = Finish(h)
    /\ UNCHANGED <<offpage, cart_items, swipe_interactions, viewvars, drag>>

\* ------------------------------------------------------------ list fetches
\* the list fetchProducts stores: filtered and deduplicated in the newest build only
Fetched ==
    IF flow = "precheck" THEN Ids(FeedFilter(products_table)) ELSE Ids(products_table)

\* a fetch that empties the list when the select fails
fetchProductsClears(t, ok) == IF ok THEN Fetched ELSE <<>>

\* Swipe.fetchProducts: the list it leaves in products (on error, the list as it was)
fetchProducts(t, ok) == IF ok THEN Fetched ELSE products[t]

\* Cart.fetchCart over the rows the store holds after this step, in any order:
\* if (!error && data) setCartItems(data)
fetchCart(t, user, ok) ==
    IF ok THEN Orders({r \in cart_items' : r.user_id = user}) ELSE {cartItems[t]}

\* SavedItems.fetchSavedItems over the rows the store holds after this step
fetchSavedItems(t, user, ok) ==
    IF ok THEN {r \in saved_items' : r.user_id = user} ELSE savedItems[t]

\* ---------------------------------------------------------------- routing
\* live: the page whose list the handler refetches at its end is still mounted
Unlive(h, t) == IF h.tab = t THEN [h EXCEPT !.live = FALSE] ELSE h

\* the page at route r mounts in tab t: fresh component state, old handlers run on
Mount(t, r, hs) ==
    /\ route' = [route EXCEPT ![t] = r]
    /\ session' = [session EXCEPT ![t] = NoSession]
    /\ products' = [products EXCEPT ![t] = <<>>]
    /\ swipedProducts' = [swipedProducts EXCEPT ![t] = {}]
    /\ cartItems' = [cartItems EXCEPT ![t] = <<>>]
    /\ savedItems' = [savedItems EXCEPT ![t] = {}]
    /\ drag' = IF drag.tab = t THEN Unmounted(drag) ELSE drag
    /\ handlers' = BagOfAll(LAMBDA h : Unlive(h, t), hs)

\* navigate("/swipe" | "/cart" | "/saved") from a nav button
Navigate(t, r) ==
    /\ route[t] \in ShopRoutes /\ r # route[t]
    /\ Mount(t, r, handlers)
    /\ Quiet
    /\ UNCHANGED <<offpage, dbvars>>

\* a session loss that drops the handlers still suspended
SignOutCancels(t) ==
    /\ route[t] # "auth"
    /\ Mount(t, "auth", EmptyBag)
    /\ Quiet
    /\ UNCHANGED <<offpage, dbvars>>

\* onAuthStateChange(_, null): setSession(null); navigate("/auth")
SignOut(t) ==
    /\ route[t] # "auth"
    /\ Mount(t, "auth", handlers)
    /\ Quiet
    /\ UNCHANGED <<offpage, dbvars>>

\* the policies of profiles as the migration leaves them, with one for INSERT
ProfilesPoliciesWithInsert == {"SELECT", "INSERT", "UPDATE"}

\* CREATE POLICY .. ON profiles: FOR SELECT and FOR UPDATE, both USING (auth.uid() = id)
ProfilesPolicies == {"SELECT", "UPDATE"}

\* profiles.upsert({id, email, role}) by the account itself: INSERT .. ON CONFLICT
\* (id) DO UPDATE. Row level security is enabled, so the proposed row must pass
\* an INSERT policy before the conflict is looked at, and the update an UPDATE one
ProfilesUpsertOk(ok) == ok /\ {"INSERT", "UPDATE"} \subseteq ProfilesPolicies

ProfilesUpsert(ok, user, role) ==
    profiles' = IF ProfilesUpsertOk(ok) THEN [profiles EXCEPT ![user] = role] ELSE profiles

\* the address an account signs in with
Email(a) == CASE a = "s1" -> "no@gmail.com" [] OTHER -> a \o "@shop.test"

\* email === "no@gmail.com"
IsDemo(a) == Email(a) = "no@gmail.com"

\* Auth.handleAuth, login branch, once signInWithPassword has returned the
\* account: upsert the profile (result not read), then navigate("/seller") for
\* the demo address, else by the role the select returns (sok: it came back)
SignIn(t) ==
    /\ route[t] = "auth"
    /\ \E ok \in BOOLEAN :
          ProfilesUpsert(ok, account[t], IF IsDemo(account[t]) THEN "seller" ELSE "user")
    /\ \E sok \in BOOLEAN :
          Mount(t, IF IsDemo(account[t]) \/ (sok /\ profiles'[account[t]] = "seller")
                   THEN "seller" ELSE "swipe", handlers)
    /\ analytics' = [analytics EXCEPT ![t] = NoAnalytics]
    /\ Quiet
    /\ UNCHANGED <<flow, account, products_table, dbvars>>

\* useEffect([session]): the mounted page fetches its list with the new session
SessionEffect(t, user, ok) ==
    /\ products' = [products EXCEPT ![t] =
                      IF route[t] = "swipe" THEN fetchProducts(t, ok) ELSE @]
    /\ \E rows \in (IF route[t] = "cart" THEN fetchCart(t, user, ok) ELSE {cartItems[t]}) :
           cartItems' = [cartItems EXCEPT ![t] = rows]
    /\ savedItems' = [savedItems EXCEPT ![t] =
                        IF route[t] = "saved" THEN fetchSavedItems(t, user, ok) ELSE @]
    /\ Toast(CASE ok -> <<>>
               [] ~ok /\ route[t] = "swipe" -> <<"Error loading products">>
               [] ~ok /\ route[t] = "saved" -> <<"Error loading saved items">>
               [] OTHER -> <<>>)

\* getSession() resolves with the stored session: setSession, then the effect
Activate(t, ok) ==
    /\ Net(ok)
    /\ route[t] \in ShopRoutes /\ session[t] = NoSession
    /\ UNCHANGED <<offpage, dbvars, route, swipedProducts, drag, handlers>>
    /\ session' = [session EXCEPT ![t] = TabUser(t)]
    /\ SessionEffect(t, TabUser(t), ok)

\* onAuthStateChange(_, session) with a refreshed session: setSession, then the effect
SessionChange(t, ok) ==
    /\ Net(ok)
    /\ route[t] \in ShopRoutes /\ session[t] # NoSession
    /\ UNCHANGED <<offpage, dbvars, route, session, swipedProducts, drag, handlers>>
    /\ SessionEffect(t, session[t], ok)

\* -------------------------------------------------------- saved-items page
\* handleRemove(item.id) from the Remove button
handleRemove(t, item) ==
    /\ route[t] = "saved" /\ session[t] # NoSession
    /\ item \in savedItems[t]
    /\ InFlight < MaxInFlight
    /\ handlers' = Spawn([Idle EXCEPT !.kind = "remove", !.tab = t, !.uid = TabUser(t),
                                      !.product = item.product_id, !.pc = "savedDeleteId",
                                      !.rowId = item.id, !.live = TRUE])
    /\ Quiet
    /\ UNCHANGED <<offpage, dbvars, viewvars, drag>>

\* handleMoveToCart(item.product.id, item.id) up to its first await
handleMoveToCart(t, item) ==
    /\ route[t] = "saved" /\ session[t] # NoSession
    /\ item \in savedItems[t]
    /\ InFlight < MaxInFlight
    /\ handlers' = Spawn([Idle EXCEPT !.kind = "move", !.tab = t, !.uid = session[t],
                                      !.product = item.product_id, !.pc = "cartUpsert",
                                      !.rowId = item.id, !.live = TRUE])
    /\ Quiet
    /\ UNCHANGED <<offpage, dbvars, viewvars, drag>>

\* handleMoveToCart going on to handleRemove whatever the upsert returned
AfterMoveUpsertUnchecked(h, error) == Step(h, [h EXCEPT !.pc = "savedDeleteId"])

\* what handleMoveToCart does once the upsert has returned
AfterMoveUpsert(h, error) ==
    IF error THEN Finish(h) ELSE Step(h, [h EXCEPT !.pc = "savedDeleteId"])

\* cart_items.upsert({user_id, product_id, quantity: 1}); on success await handleRemove
MoveCartUpsert(h, ok) ==
    /\ Net(ok)
    /\ h.kind = "move" /\ h.pc = "cartUpsert"
    /\ CartUpsert(ok, h.uid, h.product, 1)
    /\ handlers' = AfterMoveUpsert(h, ~CartUpsertOk(ok, h.uid, h.product))
    /\ Toast(IF ~CartUpsertOk(ok, h.uid, h.product)
             THEN <<"Error adding to cart">> ELSE <<>>)
    /\ UNCHANGED <<offpage, saved_items, swipe_interactions, viewvars, drag>>

\* titles of handleRemove, followed by handleMoveToCart's own when it awaited it
RemoveToast(h, error) ==
    (IF error THEN <<"Error removing item">> ELSE <<"Item removed">>)
    \o (IF h.kind = "move" THEN <<"Moved to cart!">> ELSE <<>>)

\* handleRemove: delete from saved_items where id = savedItemId; on success
\* fetchSavedItems() (fok: that fetch came back)
SavedDeleteById(h, ok, fok) ==
    /\ Net(ok)
    /\ h.kind \in {"remove", "move"} /\ h.pc = "savedDeleteId"
    /\ SavedDeleteId(ok, h.uid, h.rowId)
    /\ savedItems' = ScrubSavedItems(
           IF ok /\ h.live
           THEN [savedItems EXCEPT ![h.tab] = fetchSavedItems(h.tab, h.uid, fok)]
           ELSE savedItems, saved_items')
    /\ Toast(RemoveToast(h, ~ok)
             \o (IF ok /\ h.live /\ ~fok THEN <<"Error loading saved items">> ELSE <<>>))
    /\ handlers' = ScrubHandlers(Finish(h), cart_items, saved_items')
    /\ UNCHANGED <<offpage, cart_items, swipe_interactions, route, session, products,
                   swipedProducts, cartItems, drag>>

\* --------------------------------------------------------------- cart page
\* removeItem(item.id) up to its await
removeItem(t, item) ==
    /\ route[t] = "cart" /\ session[t] # NoSession
    /\ item \in Range(cartItems[t])
    /\ InFlight < MaxInFlight
    /\ handlers' = Spawn([Idle EXCEPT !.kind = "removeCart", !.tab = t, !.uid = TabUser(t),
                                      !.product = item.product_id, !.pc = "cartDeleteId",
                                      !.rowId = item.id, !.live = TRUE])
    /\ Quiet
    /\ UNCHANGED <<offpage, dbvars, viewvars, drag>>

\* delete from cart_items where id = ..; on success fetchCart() (fok: it came back)
CartDeleteById(h, ok, fok) ==
    /\ Net(ok)
    /\ h.kind = "removeCart" /\ h.pc = "cartDeleteId"
    /\ CartDeleteId(ok, h.uid, h.rowId)
    /\ Toast(IF ok THEN <<"Removed from cart">> ELSE <<"Error removing item">>)
    /\ \E rows \in (IF ok /\ h.live THEN fetchCart(h.tab, h.uid, fok)
                                   ELSE {cartItems[h.tab]}) :
           cartItems' = ScrubCartItems([cartItems EXCEPT ![h.tab] = rows], cart_items')
    /\ handlers' = ScrubHandlers(Finish(h), cart_items', saved_items)
    /\ UNCHANGED <<offpage, saved_items, swipe_interactions, route, session, products,
                   swipedProducts, savedItems, drag>>

\* the products of the lines of a cart list, in its order
CartProducts(list) == [i \in 1..Len(list) |-> list[i].product_id]

\* checkout up to its first await: if (!session || cartItems.length === 0) return;
\* items is the cartItems array of the render the handler closed over, todo the
\* part of it the loop has yet to visit
checkout(t) ==
    /\ route[t] = "cart"
    /\ session[t] # NoSession /\ Len(cartItems[t]) # 0
    /\ InFlight < MaxInFlight
    /\ handlers' = Spawn([Idle EXCEPT !.kind = "checkout", !.tab = t, !.uid = session[t],
                                      !.pc = "purchase",
                                      !.items = CartProducts(cartItems[t]),
                                      !.todo = CartProducts(cartItems[t])])
    /\ Quiet
    /\ UNCHANGED <<offpage, dbvars, viewvars, drag>>

\* the loop attempting the same item again while its insert returns an error
AfterPurchaseRetries(h, error) ==
    IF error THEN h
    ELSE [h EXCEPT !.todo = Tail(h.todo),
                   !.pc = IF Tail(h.todo) = <<>> THEN "clear" ELSE "purchase"]

\* the loop leaving at the first insert that returned an error
AfterPurchaseBreaks(h, error) ==
    IF error THEN [h EXCEPT !.todo = <<>>, !.pc = "clear"]
    ELSE [h EXCEPT !.todo = Tail(h.todo),
                   !.pc = IF Tail(h.todo) = <<>> THEN "clear" ELSE "purchase"]

\* if (error) console.warn(..): the loop goes on to the next item, or past its end
AfterPurchase(h, error) ==
    [h EXCEPT !.todo = Tail(h.todo),
              !.pc = IF Tail(h.todo) = <<>> THEN "clear" ELSE "purchase"]

\* one turn of the loop: insert {user_id, product_id, action: "purchased"}; errors are logged
CheckoutPurchase(h, ok) ==
    /\ Net(ok)
    /\ h.kind = "checkout" /\ h.pc = "purchase"
    /\ LogInsert(ok, h.uid, Head(h.todo), "purchased")
    /\ handlers' = Step(h, AfterPurchase(h, ~LogInsertOk(ok, "purchased")))
    /\ NoToast
    /\ UNCHANGED <<offpage, cart_items, saved_items, viewvars, drag>>

\* delete from cart_items where user_id; toast; setCartItems([]); navigate("/swipe")
CheckoutClear(h, ok) ==
    /\ Net(ok)
    /\ h.kind = "checkout" /\ h.pc = "clear"
    /\ CartDeleteUser(ok, h.uid)
    /\ Toast(<<"Checkout complete!">>)
    /\ IF route[h.tab] \in {"cart", "saved"}
       THEN Mount(h.tab, "swipe", ScrubHandlers(Finish(h), cart_items', saved_items))
       ELSE /\ handlers' = ScrubHandlers(Finish(h), cart_items', saved_items)
            /\ UNCHANGED <<viewvars, drag>>
    /\ UNCHANGED <<offpage, saved_items, swipe_interactions>>

\* ------------------------------------------------------------- seller page
\* select * from products where seller_id = user
SellerRows(table, user) == SelectSeq(table, LAMBDA p : p.seller_id = user)

\* Seller.fetchProducts' filters: p.name?.toLowerCase() against removedNames,
\* then the seen-set filter on the trimmed lower-case name
SellerFilter(rows) ==
    Dedupe(SelectSeq(rows, LAMBDA p : toLowerCase(p.name) \notin removedNames), {})

\* Seller.fetchProducts over the rows the store holds after this step; the
\* select has no ORDER BY, and (data || []) leaves an empty list when it failed
sellerFetchProducts(user, ok) ==
    IF ok
    THEN {Ids(SellerFilter(rows)) : rows \in Orders(Range(SellerRows(products_table', user)))}
    ELSE {<<>>}

\* select action, products!inner(..) from swipe_interactions where
\* products.seller_id = user
SellerInteractions(log, table, user) ==
    SelectSeq(log, LAMBDA r : \E i \in 1..Len(table) :
                                 table[i].id = r.product_id /\ table[i].seller_id = user)

\* data.filter(s => s.action === action).length
CountAction(data, action) == Len(SelectSeq(data, LAMBDA r : r.action = action))

\* the counts with the joined table taken for the whole log
AnalyticsOfAll(log, table, user) ==
    [totalViews |-> Len(log),
     totalSwipesRight |-> CountAction(log, "right"),
     totalSwipesLeft |-> CountAction(log, "left"),
     totalPurchases |-> CountAction(log, "purchased")]

\* the Analytics object fetchAnalytics builds from the joined rows
AnalyticsOf(log, table, user) ==
    LET data == SellerInteractions(log, table, user)
    IN  [totalViews |-> Len(data),
         totalSwipesRight |-> CountAction(data, "right"),
         totalSwipesLeft |-> CountAction(data, "left"),
         totalPurchases |-> CountAction(data, "purchased")]

\* Seller.fetchAnalytics: if (data) setAnalytics(..)
fetchAnalytics(t, user, ok) ==
    IF ok THEN AnalyticsOf(swipe_interactions', products_table', user) ELSE analytics[t]

\* Number.prototype.toFixed(1) of n / d with the fraction cut, not rounded
toFixed1Truncated(n, d) ==
    LET tenths == (10 * n) \div d
    IN  ToString(tenths \div 10) \o "." \o ToString(tenths % 10)

\* Number.prototype.toFixed(1) of n / d: the nearest multiple of 0.1, in digits
toFixed1(n, d) ==
    LET tenths == (20 * n + d) \div (2 * d)
    IN  ToString(tenths \div 10) \o "." \o ToString(tenths % 10)

\* totalViews > 0 ? ((totalSwipesRight / totalViews) * 100).toFixed(1) : "0"
conversionRate(a) ==
    IF a.totalViews > 0 THEN toFixed1(a.totalSwipesRight * 100, a.totalViews) ELSE "0"

\* useEffect([session]) of Seller: ensureSellerRoleAndSeed (the upsert only for
\* the demo address), fetchProducts and fetchAnalytics, each with its own outcome
SellerEffect(t, user, uok, pok, aok) ==
    /\ IF IsDemo(user) THEN ProfilesUpsert(uok, user, "seller") ELSE UNCHANGED profiles
    /\ \E rows \in sellerFetchProducts(user, pok) :
           products' = [products EXCEPT ![t] = rows]
    /\ analytics' = [analytics EXCEPT ![t] = fetchAnalytics(t, user, aok)]

\* getSession() resolves on the seller page: setSession, then the effect
SellerActivate(t, uok, pok, aok) ==
    /\ Net(pok)
    /\ route[t] = "seller" /\ session[t] = NoSession
    /\ session' = [session EXCEPT ![t] = TabUser(t)]
    /\ UNCHANGED <<flow, account, products_table, dbvars, route, swipedProducts,
                   cartItems, savedItems, drag, handlers>>
    /\ SellerEffect(t, TabUser(t), uok, pok, aok)
    /\ NoToast

\* onAuthStateChange(_, session) with a refreshed session on the seller page
SellerSessionChange(t, uok, pok, aok) ==
    /\ Net(pok)
    /\ route[t] = "seller" /\ session[t] # NoSession
    /\ UNCHANGED <<flow, account, products_table, dbvars, route, session, swipedProducts,
                   cartItems, savedItems, drag, handlers>>
    /\ SellerEffect(t, session[t], uok, pok, aok)
    /\ NoToast

\* an id no row, list or handler holds
NewProductIds ==
    {p \in Products :
        /\ \A i \in 1..Len(products_table) : products_table[i].id # p
        /\ \A i \in 1..Len(swipe_interactions) : swipe_interactions[i].product_id # p
        /\ \A t \in Tabs : p \notin Range(products[t]) \cup swipedProducts[t]
        /\ \A h \in HandlerSet : h.product # p}

\* handleAddProduct with newProduct.name = name, up to its await
handleAddProduct(t, name) ==
    /\ route[t] = "seller" /\ session[t] # NoSession
    /\ InFlight < MaxInFlight
    /\ handlers' = Spawn([Idle EXCEPT !.kind = "addProduct", !.tab = t, !.uid = session[t],
                                      !.pc = "productInsert", !.name = name,
                                      !.live = TRUE])
    /\ Quiet
    /\ UNCHANGED <<offpage, dbvars, viewvars, drag>>

\* the INSERT policy of products without its role condition
ProductInsertPolicyAnyRole(user, seller) == user = seller

\* "Sellers can create products": WITH CHECK (auth.uid() = seller_id AND EXISTS
\* (SELECT 1 FROM profiles WHERE id = auth.uid() AND role = 'seller'))
ProductInsertPolicy(user, seller) == user = seller /\ profiles[user] = "seller"

\* insert into products by the signed-in account user
ProductInsertOk(ok, user, seller) == ok /\ ProductInsertPolicy(user, seller)

\* products.insert({seller_id: session.user.id, name, ..}); on success the toast,
\* then fetchProducts() (fok: that fetch came back)
ProductInsert(h, ok, fok) ==
    /\ Net(ok)
    /\ h.kind = "addProduct" /\ h.pc = "productInsert"
    /\ ProductInsertOk(ok, h.uid, h.uid) => NewProductIds # {}
    /\ products_table' =
          IF ProductInsertOk(ok, h.uid, h.uid)
          THEN <<[id |-> CHOOSE p \in NewProductIds : TRUE, name |-> h.name,
                  seller_id |-> h.uid]>> \o products_table
          ELSE products_table
    /\ Toast(IF ProductInsertOk(ok, h.uid, h.uid)
             THEN <<"Product added successfully!">> ELSE <<"Error adding product">>)
    /\ \E rows \in (IF ProductInsertOk(ok, h.uid, h.uid) /\ h.live
                    THEN sellerFetchProducts(h.uid, fok) ELSE {products[h.tab]}) :
           products' = [products EXCEPT ![h.tab] = rows]
    /\ handlers' = Finish(h)
    /\ UNCHANGED <<flow, account, profiles, analytics, dbvars, route, session,
                   swipedProducts, cartItems, savedItems, drag>>

\* handleDeleteProduct(product.id) up to its await
handleDeleteProduct(t, p) ==
    /\ route[t] = "seller" /\ session[t] # NoSession
    /\ p \in Range(products[t])
    /\ InFlight < MaxInFlight
    /\ handlers' = Spawn([Idle EXCEPT !.kind = "deleteProduct", !.tab = t,
                                      !.uid = session[t], !.product = p,
                                      !.pc = "productDelete", !.live = TRUE])
    /\ Quiet
    /\ UNCHANGED <<offpage, dbvars, viewvars, drag>>

\* a delete from products that leaves the records of the product in the log
NoCascade(log, deleted) == log

\* swipe_interactions.product_id REFERENCES products(id) ON DELETE CASCADE: the
\* records that remain when the products in deleted are removed
Cascade(log, deleted) == SelectSeq(log, LAMBDA r : r.product_id \notin deleted)

\* the ids a delete .eq("id", p).eq("seller_id", user) removes under "Sellers
\* can delete own products": USING (auth.uid() = seller_id AND role = 'seller');
\* rows the policy hides are skipped without an error
ProductDeleted(ok, user, p) ==
    IF ok /\ profiles[user] = "seller"
    THEN {products_table[i].id : i \in {j \in 1..Len(products_table) :
              products_table[j].id = p /\ products_table[j].seller_id = user}}
    ELSE {}

\* the local list changed before the delete has returned, whatever it returns
LocalDeleteOptimistic(list, ok, live, p) == SelectSeq2(list, Products \ {p})

\* if (error) return; setProducts(prev => prev.filter(p => p.id !== productId))
LocalDelete(list, ok, live, p) ==
    IF ok /\ live THEN SelectSeq2(list, Products \ {p}) ELSE list

\* products.delete().eq("id", productId).eq("seller_id", ..); on an error the
\* toast and return, else setProducts(prev => prev.filter(..)) and the toast
ProductDelete(h, ok) ==
    /\ Net(ok)
    /\ h.kind = "deleteProduct" /\ h.pc = "productDelete"
    /\ LET deleted == ProductDeleted(ok, h.uid, h.product)
       IN  /\ products_table' = SelectSeq(products_table, LAMBDA r : r.id \notin deleted)
           /\ swipe_interactions' = Cascade(swipe_interactions, deleted)
           /\ cart_items' = {r \in cart_items : r.product_id \notin deleted}
           /\ saved_items' = {r \in saved_items : r.product_id \notin deleted}
    /\ cartItems' = ScrubCartItems(cartItems, cart_items')
    /\ savedItems' = ScrubSavedItems(savedItems, saved_items')
    /\ handlers' = ScrubHandlers(Finish(h), cart_items', saved_items')
    /\ products' = [products EXCEPT ![h.tab] = LocalDelete(@, ok, h.live, h.product)]
    /\ Toast(IF ok THEN <<"Product deleted">> ELSE <<"Error deleting product">>)
    /\ UNCHANGED <<flow, account, profiles, analytics, route, session, swipedProducts,
                   drag>>

\* ------------------------------------------------------------ specification
Start ==
    /\ flow \in {"precheck", "upsert"}
    /\ cart_items = {} /\ saved_items = {} /\ swipe_interactions = <<>>
    /\ route = [t \in Tabs |-> "swipe"]
    /\ session = [t \in Tabs |-> NoSession]
    /\ products = [t \in Tabs |-> <<>>]
    /\ swipedProducts = [t \in Tabs |-> {}]
    /\ cartItems = [t \in Tabs |-> <<>>]
    /\ savedItems = [t \in Tabs |-> {}]
    /\ toast = <<>>
    /\ net = "none"
    /\ drag = NoDrag
    /\ handlers = EmptyBag
    /\ account = [t \in Tabs |-> "u1"]
    /\ products_table = Catalog
    /\ profiles = [a \in Accounts |-> IF a \in Users THEN "user" ELSE "seller"]
    /\ analytics = [t \in Tabs |-> NoAnalytics]

\* the state after construction, notifications and call outcomes kept
Init == Start /\ observe = TRUE

\* the same state for the specification of the tables alone
InitTables == Start /\ observe = FALSE

\* the user's gestures on the feed, a drag taken as one step
Gesture ==
    \/ \E t \in Tabs, p \in Products, x \in Offsets : DragGesture(t, p, x)
    \/ \E t \in Tabs, key \in {"ArrowLeft", "ArrowRight"} : handleKeyPress(t, key)

\* the same gestures, a drag taken in its pointer steps
PointerGesture ==
    \/ \E t \in Tabs, p \in Products : DragStart(t, p)
    \/ \E x \in Offsets : DragMove(x)
    \/ DragRelease
    \/ \E t \in Tabs, key \in {"ArrowLeft", "ArrowRight"} : handleKeyPress(t, key)

SavedClick ==
    \/ \E t \in Tabs : \E item \in savedItems[t] : handleRemove(t, item)
    \/ \E t \in Tabs : \E item \in savedItems[t] : handleMoveToCart(t, item)

CartClick ==
    \/ \E t \in Tabs : \E item \in Range(cartItems[t]) : removeItem(t, item)
    \/ \E t \in Tabs : checkout(t)

SessionEvents ==
    \/ \E t \in Tabs, ok \in BOOLEAN : Activate(t, ok)
    \/ \E t \in Tabs, ok \in BOOLEAN : SessionChange(t, ok)

SignEvents ==
    \/ \E t \in Tabs : SignOut(t)
    \/ \E t \in Tabs : SignIn(t)

FeedResponse ==
    \/ \E h \in HandlerSet, ok \in BOOLEAN : SwipeLog(h, ok)
    \/ \E h \in HandlerSet, ok \in BOOLEAN : SwipeCartSelect(h, ok)
    \/ \E h \in HandlerSet, ok \in BOOLEAN : SwipeCartInsert(h, ok)
    \/ \E h \in HandlerSet, ok \in BOOLEAN : SwipeSavedDelete(h, ok)
    \/ \E h \in HandlerSet, ok \in BOOLEAN : SwipeSavedInsert(h, ok)
    \/ \E h \in HandlerSet, ok \in BOOLEAN : SwipeCartUpsert(h, ok)
    \/ \E h \in HandlerSet, ok \in BOOLEAN : SwipeSavedUpsert(h, ok)

SavedResponse ==
    \/ \E h \in HandlerSet, ok \in BOOLEAN : MoveCartUpsert(h, ok)
    \/ \E h \in HandlerSet, ok, fok \in BOOLEAN : SavedDeleteById(h, ok, fok)

CartResponse ==
    \/ \E h \in HandlerSet, ok, fok \in BOOLEAN : CartDeleteById(h, ok, fok)
    \/ \E h \in HandlerSet, ok \in BOOLEAN : CheckoutPurchase(h, ok)
    \/ \E h \in HandlerSet, ok \in BOOLEAN : CheckoutClear(h, ok)

\* the three pages of a signed-in tab
Next ==
    \/ Gesture \/ SavedClick \/ CartClick
    \/ \E t \in Tabs, r \in {"swipe", "cart", "saved"} : Navigate(t, r)
    \/ SessionEvents
    \/ FeedResponse \/ SavedResponse \/ CartResponse

Spec == InitTables /\ [][Next]_vars

\* the feed page alone, the drag gesture in its pointer steps, sign-out and sign-in
FeedNext == PointerGesture \/ SessionEvents \/ SignEvents \/ FeedResponse

FeedSpec == Init /\ [][FeedNext]_vars

\* the feed and the cart page
CartNext ==
    \/ Gesture \/ CartClick
    \/ \E t \in Tabs, r \in {"swipe", "cart"} : Navigate(t, r)
    \/ SessionEvents \/ SignEvents
    \/ FeedResponse \/ CartResponse

CartSpec == Init /\ [][CartNext]_vars

\* the feed and the saved-items page
SavedNext ==
    \/ Gesture \/ SavedClick
    \/ \E t \in Tabs, r \in {"swipe", "saved"} : Navigate(t, r)
    \/ SessionEvents \/ SignEvents
    \/ FeedResponse \/ SavedResponse

SavedSpec == Init /\ [][SavedNext]_vars

\* a signed-out browser in front of a store that holds no cart or saved rows
Closed ==
    /\ observe = TRUE
    /\ cart_items = {} /\ saved_items = {}
    /\ route = [t \in Tabs |-> "auth"]
    /\ session = [t \in Tabs |-> NoSession]
    /\ products = [t \in Tabs |-> <<>>]
    /\ swipedProducts = [t \in Tabs |-> {}]
    /\ cartItems = [t \in Tabs |-> <<>>]
    /\ savedItems = [t \in Tabs |-> {}]
    /\ toast = <<>>
    /\ net = "none"
    /\ drag = NoDrag
    /\ handlers = EmptyBag
    /\ analytics = [t \in Tabs |-> NoAnalytics]

\* the logs of at most n decisions the shoppers' feeds can have written
Logs(n) ==
    UNION {[1..k -> [user_id : Users, product_id : {"p1", "p2"},
                     action : {"left", "right"}]] : k \in 0..n}

\* Catalog with its two rows named n1, n2 and owned by o1, o2
CatalogOf(n1, n2, o1, o2) ==
    << [id |-> "p1", name |-> n1, seller_id |-> o1],
       [id |-> "p2", name |-> n2, seller_id |-> o2] >>

SellerSessionEvents ==
    \/ \E t \in Tabs, uok, pok, aok \in BOOLEAN : SellerActivate(t, uok, pok, aok)
    \/ \E t \in Tabs, uok, pok, aok \in BOOLEAN : SellerSessionChange(t, uok, pok, aok)

SellerResponse ==
    \/ \E h \in HandlerSet, ok, fok \in BOOLEAN : ProductInsert(h, ok, fok)
    \/ \E h \in HandlerSet, ok \in BOOLEAN : ProductDelete(h, ok)

\* the seller page and the sign-in form, for any account and any roles the
\* sign-up form can have stored, the shop holding a product of each account
\* that sells with role seller, and a log of decisions on the products it holds
SellerInit ==
    /\ Closed
    /\ flow = "precheck"
    /\ account \in [Tabs -> Accounts]
    /\ profiles \in [Accounts -> Roles]
    /\ \A u \in Users : profiles[u] = "user"
    /\ products_table = SelectSeq(CatalogOf("Tee", "Mug", "s1", "s2"),
                                  LAMBDA r : profiles[r.seller_id] = "seller")
    /\ swipe_interactions \in Logs(MaxSold)
    /\ \A i \in 1..Len(swipe_interactions) :
           \E j \in 1..Len(products_table) :
              products_table[j].id = swipe_interactions[i].product_id

SellerNext ==
    \/ SignEvents
    \/ SessionEvents
    \/ SellerSessionEvents
    \/ \E t \in Tabs, name \in {"Tee"} : handleAddProduct(t, name)
    \/ \E t \in Tabs, p \in Products : handleDeleteProduct(t, p)
    \/ SellerResponse

SellerSpec == SellerInit /\ [][SellerNext]_vars

\* the analytics of the seller page read over any log and any ownership
AnalyticsInit ==
    /\ Closed
    /\ flow = "precheck"
    /\ account \in [Tabs -> Sellers]
    /\ profiles = [a \in Accounts |-> IF a \in Users THEN "user" ELSE "seller"]
    /\ \E o1, o2 \in Sellers : products_table = CatalogOf("Tee", "Mug", o1, o2)
    /\ swipe_interactions \in Logs(MaxRecords)

AnalyticsNext == SignEvents \/ SellerSessionEvents

AnalyticsSpec == AnalyticsInit /\ [][AnalyticsNext]_vars

\* the feed and the seller list read over any names of the catalog
CatalogInit ==
    /\ Closed
    /\ flow \in {"precheck", "upsert"}
    /\ account \in [Tabs -> {"u1", "s1"}]
    /\ profiles = [a \in Accounts |-> IF a \in Users THEN "user" ELSE "seller"]
    /\ \E n1, n2 \in Names : products_table = CatalogOf(n1, n2, "s1", "s1")
    /\ swipe_interactions = <<>>

CatalogNext ==
    \/ SignEvents
    \/ SessionEvents
    \/ SellerSessionEvents
    \/ \E t \in Tabs, name \in Names : handleAddProduct(t, name)
    \/ \E h \in HandlerSet, ok, fok \in BOOLEAN : ProductInsert(h, ok, fok)

CatalogSpec == CatalogInit /\ [][CatalogNext]_vars

\* names of products the feed is opened on: two that differ in case and blanks
\* only, a third, and one of the deny list
ListNames == {"TEE", " Tee", "Mug", "Ripped Jeans"}

\* the feed of the newest build over any two rows of those names
ListInit ==
    /\ Closed
    /\ flow = "precheck"
    /\ account = [t \in Tabs |-> "u1"]
    /\ profiles = [a \in Accounts |-> IF a \in Users THEN "user" ELSE "seller"]
    /\ \E n1, n2 \in ListNames : products_table = CatalogOf(n1, n2, "s1", "s1")
    /\ swipe_interactions = <<>>

ListNext ==
    \/ Gesture \/ SessionEvents \/ SignEvents
    \/ \E h \in HandlerSet, ok \in BOOLEAN : SwipeLog(h, ok)
    \/ \E h \in HandlerSet, ok \in BOOLEAN : SwipeCartSelect(h, ok)
    \/ \E h \in HandlerSet, ok \in BOOLEAN : SwipeCartInsert(h, ok)
    \/ \E h \in HandlerSet, ok \in BOOLEAN : SwipeSavedDelete(h, ok)
    \/ \E h \in HandlerSet, ok \in BOOLEAN : SwipeSavedInsert(h, ok)

ListSpec == ListInit /\ [][ListNext]_vars

\* carts the cart page can be opened on: any of the rows of u1's right swipes
CartRows ==
    {[id |-> <<p, 1>>, user_id |-> "u1", product_id |-> p, quantity |-> 1] :
        p \in {"p1", "p2"}}

\* the cart page freshly mounted on such a cart; once left it is not opened again
CheckoutInit ==
    /\ observe = TRUE
    /\ flow = "precheck"
    /\ account = [t \in Tabs |-> "u1"]
    /\ profiles = [a \in Accounts |-> IF a \in Users THEN "user" ELSE "seller"]
    /\ products_table = Catalog
    /\ swipe_interactions = <<>> /\ saved_items = {}
    /\ cart_items \in SUBSET CartRows
    /\ route = [t \in Tabs |-> "cart"]
    /\ session = [t \in Tabs |-> NoSession]
    /\ products = [t \in Tabs |-> <<>>]
    /\ swipedProducts = [t \in Tabs |-> {}]
    /\ cartItems = [t \in Tabs |-> <<>>]
    /\ savedItems = [t \in Tabs |-> {}]
    /\ toast = <<>>
    /\ net = "none"
    /\ drag = NoDrag
    /\ handlers = EmptyBag
    /\ analytics = [t \in Tabs |-> NoAnalytics]

CheckoutNext == CartClick \/ SessionEvents \/ SignEvents \/ CartResponse

\* every call a checkout awaits returns: its handler is resumed
CheckoutFairness ==
    /\ WF_vars(\E h \in HandlerSet, ok \in BOOLEAN : CheckoutPurchase(h, ok))
    /\ WF_vars(\E h \in HandlerSet, ok \in BOOLEAN : CheckoutClear(h, ok))

CheckoutSpec == CheckoutInit /\ [][CheckoutNext]_vars /\ CheckoutFairness

\* ===================================================================== claims

\* the decision a committed gesture starts: it stands at its log insert
Decision(t, p, dir) ==
    [kind |-> IF flow = "precheck" THEN "swipe" ELSE "swipeUpsert",
     tab |-> t, uid |-> session[t], product |-> p, direction |-> dir,
     pc |-> "log", rowId |-> NoId, todo |-> <<>>, live |-> FALSE, name |-> "-",
     items |-> <<>>]

\* the record a decision's log insert writes
RecordOf(h) == [user_id |-> h.uid, product_id |-> h.product, action |-> h.direction]

\* C1: a drag released with |d| <= 100 invokes no decision handler, writes no
\* table, and leaves the card in the visible sequence.
C1_ReleaseBelowThresholdDoesNothing ==
    [][\A t \in Tabs, p \in Products :
          (drag.tab = t /\ drag.card = p /\ drag' = NoDrag
             /\ Abs(drag.x) <= SwipeThreshold)
          => /\ UNCHANGED <<cart_items, saved_items, swipe_interactions>>
             /\ UNCHANGED <<handlers, swipedProducts>>
             /\ p \in Range(visibleProducts(t))']_vars

\* C1 witness: a card held exactly at the threshold while the log is still empty
C1_Witness ==
    /\ drag.card \in Products /\ Abs(drag.x) = SwipeThreshold
    /\ Rendered(drag.tab, drag.card)
    /\ handlers = EmptyBag

\* C2 as stated: every release with |d| > 100 on a visible card creates exactly
\* one InteractionRecord of that user and product, right for d > 0, left for d < 0.
C2_ExactlyOneRecordPerRelease ==
    [][/\ \A t \in Tabs, p \in Products :
            (drag.tab = t /\ drag.card = p /\ drag' = NoDrag /\ Abs(drag.x) > SwipeThreshold)
            => handlers' = handlers (+) SetToBag({Decision(t, p, IF drag.x > 0 THEN "right" ELSE "left")})
       /\ \A h \in HandlerSet :
            (h.pc = "log" /\ handlers' = AfterLog(h, FALSE))
            => swipe_interactions' = Append(swipe_interactions, RecordOf(h))]_vars

\* C2 amended: every release with |d| > 100 on a visible card issues exactly one
\* InteractionRecord insert of that user and product, right for d > 0 and left
\* for d < 0; the insert creates that one record when it returns without error
\* and none when it fails, and nothing else adds a record.
C2_OneInsertPerRelease ==
    [][/\ \A t \in Tabs, p \in Products :
            (drag.tab = t /\ drag.card = p /\ drag' = NoDrag /\ Abs(drag.x) > SwipeThreshold)
            => /\ handlers' = handlers (+) SetToBag({Decision(t, p, IF drag.x > 0 THEN "right" ELSE "left")})
               /\ UNCHANGED swipe_interactions
       /\ \A h \in HandlerSet :
            (h.pc = "log" /\ handlers' = AfterLog(h, FALSE))
            => swipe_interactions' = IF net' = "ok"
                                     THEN Append(swipe_interactions, RecordOf(h))
                                     ELSE swipe_interactions
       /\ swipe_interactions' # swipe_interactions
            => \E h \in HandlerSet : h.pc = "log" /\ handlers' = AfterLog(h, FALSE)]_vars

\* C2 witness: the insert of a decision failed, so the decision goes on to its
\* cart or saved write with no record of it in the log
C2_Witness ==
    /\ net = "failed" /\ swipe_interactions = <<>>
    /\ \E h \in HandlerSet :
          /\ h.kind \in {"swipe", "swipeUpsert"}
          /\ h.pc \in {"cartSelect", "savedDelete", "cartUpsert", "savedUpsert"}

\* C3: a card that received a decision leaves the visible sequence in that very
\* step and is not visible again while the feed session lasts, whatever is
\* refetched and whatever the writes of the decision return.
C3_DecidedCardNeverVisibleAgain ==
    [][\A t \in Tabs, p \in Products :
          /\ (session[t] # NoSession /\ session'[t] # NoSession /\ p \in swipedProducts[t])
             => p \notin Range(visibleProducts(t))'
          /\ (\E dir \in {"left", "right"} :
                 handlers' = handlers (+) SetToBag({Decision(t, p, dir)}))
             => p \notin Range(visibleProducts(t))']_vars

\* C3 witness: a decided card whose write failed, with the product still in the
\* fetched list
C3_Witness ==
    \E t \in Tabs, p \in Products :
        /\ p \in swipedProducts[t] /\ p \in Range(products[t])
        /\ toast \in {<<"Error adding to cart">>, <<"Error saving item">>}

\* the rows a table holds for one (user, product) pair
PairRows(rows, user, product) ==
    {r \in rows : r.user_id = user /\ r.product_id = product}

\* a decision handler of either version of the page
IsSwipe(h) == h.kind \in {"swipe", "swipeUpsert"}

\* C4 as stated: a right-swipe on a pair that has a CartItem adds no row and
\* changes no quantity; on a pair without one it creates exactly one row of
\* quantity 1.
C4_RightSwipeOneRow ==
    [][\A h \in HandlerSet :
          (IsSwipe(h) /\ h.pc \in {"cartSelect", "cartInsert", "cartInsertNull", "cartUpsert"}
             /\ handlers' = Finish(h))
          => IF PairRows(cart_items, h.uid, h.product) # {}
             THEN cart_items' = cart_items
             ELSE \E r \in cart_items' :
                     /\ r.user_id = h.uid /\ r.product_id = h.product /\ r.quantity = 1
                     /\ cart_items' = cart_items \cup {r}
                     /\ r \notin cart_items]_vars

\* C4 amended: a right-swipe on a pair that has a CartItem adds no row and
\* changes no quantity; on a pair without one it creates exactly one row of
\* quantity 1 when its insert returns without error, and when the insert fails
\* it creates no row and shows "Error adding to cart".
C4_RightSwipeOneRowUnlessInsertFails ==
    [][\A h \in HandlerSet :
          (IsSwipe(h) /\ h.pc \in {"cartSelect", "cartInsert", "cartInsertNull", "cartUpsert"}
             /\ handlers' = Finish(h))
          => IF PairRows(cart_items, h.uid, h.product) # {}
             THEN cart_items' = cart_items
             ELSE IF net' = "ok"
                  THEN \E r \in cart_items' :
                          /\ r.user_id = h.uid /\ r.product_id = h.product
                          /\ r.quantity = 1
                          /\ cart_items' = cart_items \cup {r}
                          /\ r \notin cart_items
                  ELSE /\ cart_items' = cart_items
                       /\ toast' = <<"Error adding to cart">>]_vars

\* C4 witness: a right-swipe about to write its cart row while the pair
\* already has one
C4_Witness ==
    \E h \in HandlerSet :
        /\ IsSwipe(h) /\ h.pc \in {"cartInsert", "cartInsertNull", "cartUpsert"}
        /\ PairRows(cart_items, h.uid, h.product) # {}

\* C5 as stated: when a left-swipe on a pair has run, exactly one SavedItem row
\* exists for the pair.
C5_LeftSwipeExactlyOneRow ==
    [][\A h \in HandlerSet :
          (IsSwipe(h) /\ h.pc \in {"savedInsert", "savedUpsert"}
             /\ handlers' = Finish(h))
          => Cardinality(PairRows(saved_items', h.uid, h.product)) = 1]_vars

\* C5 amended: after any number of left-swipes on a pair at most one SavedItem
\* row exists for it, and exactly one after a left-swipe whose insert returned
\* without error; the delete of the replace, when it returns without error,
\* leaves the pair without a row, and an insert that fails after it adds none
\* and shows "Error saving item".
C5_LeftSwipeAtMostOneRow ==
    [][\A h \in HandlerSet :
          /\ (IsSwipe(h) /\ h.pc \in {"savedInsert", "savedUpsert"}
                /\ handlers' = Finish(h))
             => /\ Cardinality(PairRows(saved_items', h.uid, h.product)) <= 1
                /\ toast' = <<"Saved for later">>
                     => Cardinality(PairRows(saved_items', h.uid, h.product)) = 1
                /\ net' = "ok" => PairRows(saved_items', h.uid, h.product) # {}
                /\ net' = "failed"
                     => saved_items' = saved_items /\ toast' = <<"Error saving item">>
          /\ (IsSwipe(h) /\ h.pc = "savedDelete" /\ net' = "ok"
                /\ handlers' # handlers /\ h \notin BagToSet(handlers'))
             => PairRows(saved_items', h.uid, h.product) = {}]_vars

\* C5 witness: a left-swipe ended with an error and the pair has no saved row
C5_Witness ==
    /\ toast = <<"Error saving item">> /\ net = "failed"
    /\ \E t \in Tabs, p \in Products :
          /\ p \in swipedProducts[t] /\ session[t] # NoSession
          /\ PairRows(saved_items, session[t], p) = {}
          /\ \A h \in HandlerSet : h.product # p

\* the first cart or saved call of a decision, by page version and direction
FirstWrite(h) ==
    IF h.kind = "swipe"
    THEN (IF h.direction = "right" THEN "cartSelect" ELSE "savedDelete")
    ELSE (IF h.direction = "right" THEN "cartUpsert" ELSE "savedUpsert")

\* C8: every decision issues its InteractionRecord insert before any cart or
\* saved call; when that insert fails nothing is shown and the decision still
\* goes on to its cart or saved call.
C8_LogFirstAndBestEffort ==
    [][\A h \in HandlerSet :
          /\ (IsSwipe(h) /\ h.pc = "log"
                /\ CopiesIn(h, handlers') < CopiesIn(h, handlers))
             => /\ handlers' = (handlers (-) SetToBag({h}))
                                 (+) SetToBag({[h EXCEPT !.pc = FirstWrite(h)]})
                /\ toast' = <<>>
                /\ UNCHANGED <<cart_items, saved_items>>
          /\ (IsSwipe(h) /\ CopiesIn(h, handlers) < CopiesIn(h, handlers'))
             => \/ h.pc = "log" /\ UNCHANGED <<cart_items, saved_items>>
                \/ \E g \in HandlerSet :
                      /\ IsSwipe(g) /\ g.pc # h.pc
                      /\ h = [g EXCEPT !.pc = h.pc]
                      /\ CopiesIn(g, handlers') < CopiesIn(g, handlers)
                      /\ g.pc = "log" <=> h.pc = FirstWrite(h)]_vars

\* C8 witness: a decision stands at its cart or saved call although its log
\* insert failed
C8_Witness ==
    /\ net = "failed" /\ toast = <<>> /\ swipe_interactions = <<>>
    /\ \E h \in HandlerSet : IsSwipe(h) /\ h.pc = FirstWrite(h)

\* C9: when the cart or saved insert of a decision is refused, an error
\* notification is shown, the log keeps the record of the decision, and the card
\* stays out of the visible sequence.
C9_FailedWriteKeepsLogAndCardAway ==
    [][\A h \in HandlerSet :
          (IsSwipe(h) /\ h.pc \in {"cartInsert", "cartInsertNull", "cartUpsert",
                                   "savedInsert", "savedUpsert"}
             /\ handlers' = Finish(h)
             /\ cart_items' = cart_items /\ saved_items' = saved_items)
          => /\ toast' = IF h.direction = "right" THEN <<"Error adding to cart">>
                         ELSE <<"Error saving item">>
             /\ UNCHANGED <<swipe_interactions, swipedProducts, products>>
             /\ h.product \in swipedProducts[h.tab]
                  => h.product \notin Range(visibleProducts(h.tab))']_vars

\* C9 witness: a decision is logged, its write was refused, and its card is
\* marked as swiped while the fetched list still holds the product
C9_Witness ==
    /\ net = "failed"
    /\ toast \in {<<"Error adding to cart">>, <<"Error saving item">>}
    /\ \E t \in Tabs, i \in 1..Len(swipe_interactions) :
          /\ swipe_interactions[i].product_id \in swipedProducts[t]
          /\ swipe_interactions[i].product_id \in Range(products[t])
          /\ swipe_interactions[i].user_id = session[t]
          /\ PairRows(cart_items \cup saved_items, session[t],
                      swipe_interactions[i].product_id) = {}

\* C6: in every reachable state, whatever the interleaving of swipe handlers,
\* move-to-cart, remove and checkout, a (user, product) pair has at most one
\* CartItem row and at most one SavedItem row.
C6_AtMostOneRowPerPair ==
    \A u \in Users, p \in Products :
        /\ Cardinality(PairRows(cart_items, u, p)) <= 1
        /\ Cardinality(PairRows(saved_items, u, p)) <= 1

\* C6 witness: two writers in flight at once, one about to insert a cart row
\* and one about to insert a saved row, each for a pair that already has its row
C6_Witness ==
    /\ \E h \in HandlerSet :
          /\ h.pc \in {"cartInsert", "cartInsertNull", "cartUpsert"}
          /\ PairRows(cart_items, h.uid, h.product) # {}
    /\ \E g \in HandlerSet :
          /\ g.pc \in {"savedInsert", "savedUpsert"}
          /\ PairRows(saved_items, g.uid, g.product) # {}

\* the cart rows of one user
UserRows(rows, user) == {r \in rows : r.user_id = user}

\* C7 as stated: a checkout started with a session and a non-empty cart leaves
\* no cart row of the user, whatever the purchase inserts returned.
C7_CheckoutLeavesNoCartRow ==
    [][\A h \in HandlerSet :
          (h.kind = "checkout" /\ h.pc = "clear"
             /\ CopiesIn(h, handlers') < CopiesIn(h, handlers))
          => UserRows(cart_items', h.uid) = {}]_vars

\* C7 amended: a checkout started with a session and a non-empty cart issues its
\* cart delete whatever the purchase inserts returned; the delete leaves no cart
\* row of the user when it returns without error and every row in place when it
\* fails, and in both cases "Checkout complete!" is shown and the list emptied.
C7_CheckoutClearsUnlessDeleteFails ==
    [][\A h \in HandlerSet :
          /\ (h.kind = "checkout" /\ h.pc = "clear"
                /\ CopiesIn(h, handlers') < CopiesIn(h, handlers))
             => /\ net' = "ok" => UserRows(cart_items', h.uid) = {}
                /\ net' = "failed" => cart_items' = cart_items
                /\ toast' = <<"Checkout complete!">>
                /\ cartItems'[h.tab] = <<>>
          /\ (h.kind = "checkout" /\ h.pc = "purchase"
                /\ CopiesIn(h, handlers') < CopiesIn(h, handlers))
             => /\ cart_items' = cart_items
                /\ \E g \in BagToSet(handlers') :
                      /\ g.kind = "checkout" /\ g.uid = h.uid
                      /\ g.todo = Tail(h.todo)
                      /\ g.pc = IF g.todo = <<>> THEN "clear" ELSE "purchase"]_vars

\* C7 witness: a checkout has just cleared a cart although none of its purchase
\* records was stored
C7_Witness ==
    /\ toast = <<"Checkout complete!">> /\ net = "ok"
    /\ cart_items = {}
    /\ \A i \in 1..Len(swipe_interactions) : swipe_interactions[i].action # "purchased"
    /\ \E t \in Tabs : route[t] = "swipe" /\ session[t] = NoSession

\* C10 as stated: a move-to-cart whose calls return without error leaves no
\* SavedItem row and exactly one CartItem row for the pair, and a move of a
\* product that is already in the cart goes through in the same way.
C10_MoveLeavesOneCartRow ==
    [][\A h \in HandlerSet :
          /\ (h.kind = "move" /\ h.pc = "cartUpsert" /\ net' = "ok"
                /\ handlers' \in {Finish(h), Step(h, [h EXCEPT !.pc = "savedDeleteId"])})
             => handlers' = Step(h, [h EXCEPT !.pc = "savedDeleteId"])
          /\ (h.kind = "move" /\ h.pc = "savedDeleteId" /\ net' = "ok"
                /\ handlers' = ScrubHandlers(Finish(h), cart_items, saved_items'))
             => /\ PairRows(saved_items', h.uid, h.product) = {}
                /\ Cardinality(PairRows(cart_items', h.uid, h.product)) = 1]_vars

\* C10 amended: a move-to-cart of a product that has no CartItem, when its
\* upsert returns without error, creates exactly one CartItem row of quantity 1
\* and then deletes the SavedItem row it was given, so that no SavedItem row
\* with that id is left when the delete returns without error; a move of a
\* product that is already in the cart is refused as a duplicate, shows
\* "Error adding to cart", and keeps both rows as they were.
C10_MoveCreatesRowOrIsRefused ==
    [][\A h \in HandlerSet :
          /\ (h.kind = "move" /\ h.pc = "cartUpsert"
                /\ handlers' \in {Finish(h), Step(h, [h EXCEPT !.pc = "savedDeleteId"])})
             => IF PairRows(cart_items, h.uid, h.product) = {} /\ net' = "ok"
                THEN /\ \E r \in cart_items' :
                           /\ r.user_id = h.uid /\ r.product_id = h.product
                           /\ r.quantity = 1 /\ r \notin cart_items
                           /\ cart_items' = cart_items \cup {r}
                     /\ handlers' = Step(h, [h EXCEPT !.pc = "savedDeleteId"])
                     /\ saved_items' = saved_items
                ELSE /\ UNCHANGED <<cart_items, saved_items>>
                     /\ toast' = <<"Error adding to cart">>
                     /\ handlers' = Finish(h)
          /\ (h.kind = "move" /\ h.pc = "savedDeleteId" /\ net' = "ok"
                /\ handlers' = ScrubHandlers(Finish(h), cart_items, saved_items'))
             => /\ saved_items' = {r \in saved_items : r.id # h.rowId}
                /\ cart_items' = cart_items]_vars

\* C10 witness: a move has just ended without error, the pair has its one cart
\* row and no saved row
C10_Witness ==
    /\ toast = <<"Item removed", "Moved to cart!">> /\ net = "ok"
    /\ \E u \in Users, p \in Products :
          /\ Cardinality(PairRows(cart_items, u, p)) = 1
          /\ PairRows(saved_items, u, p) = {}
          /\ \A t \in Tabs : route[t] = "saved" /\ savedItems[t] = {}

\* C11 as stated: move-to-cart makes no partial commit. When its upsert fails
\* the saved row is kept and no delete is issued, and when the operation ends
\* the product is either in the cart and gone from the saved items, or both
\* tables are as they were.
C11_NoPartialCommit ==
    [][\A h \in HandlerSet :
          /\ (h.kind = "move" /\ h.pc = "cartUpsert" /\ handlers' = Finish(h))
             => UNCHANGED <<cart_items, saved_items>>
          /\ (h.kind = "move" /\ h.pc = "savedDeleteId"
                /\ handlers' = ScrubHandlers(Finish(h), cart_items, saved_items'))
             => /\ PairRows(cart_items', h.uid, h.product) # {}
                /\ \A r \in saved_items' : r.id # h.rowId]_vars

\* C13 as stated: every record of the log has an action among left, right and
\* purchased, the store accepts all three, and a checkout turn whose insert
\* reaches the store appends the purchased record of its cart line.
C13_PurchasedRecordsAccepted ==
    [][/\ \A i \in 1..Len(swipe_interactions') :
             swipe_interactions'[i].action \in {"left", "right", "purchased"}
       /\ \A h \in HandlerSet :
             (h.kind = "checkout" /\ h.pc = "purchase" /\ net' = "ok"
                /\ CopiesIn(h, handlers') < CopiesIn(h, handlers))
             => swipe_interactions' =
                    Append(swipe_interactions,
                           [user_id |-> h.uid, product_id |-> Head(h.todo),
                            action |-> "purchased"])]_vars

\* C19 as stated: in the pre-check flow, when two right-swipe decisions for the
\* same (user, product) pair run concurrently, the insert that loses (its select
\* found no row, and the row of the other decision is stored by the time it
\* reaches the store) is a no-op: no error is shown and the pair has exactly one
\* CartItem row.
C19_LosingInsertIsNoOp ==
    [][\A h \in HandlerSet :
          (h.kind = "swipe" /\ h.direction = "right" /\ h.pc = "cartInsert"
             /\ PairRows(cart_items, h.uid, h.product) # {}
             /\ net' = "ok" /\ handlers' = Finish(h))
          => /\ toast' # <<"Error adding to cart">>
             /\ Cardinality(PairRows(cart_items', h.uid, h.product)) = 1]_vars

\* C20 as stated: within one feed session no two decision handlers of the same
\* product run concurrently: a decision never starts while an earlier handler
\* of the same user and product is in flight.
C20_NoConcurrentHandlersPerProduct ==
    [][\A t \in Tabs, p \in Products, dir \in {"left", "right"} :
          handlers' = handlers (+) SetToBag({Decision(t, p, dir)})
          => \A g \in HandlerSet :
                ~(IsSwipe(g) /\ g.uid = session[t] /\ g.product = p)]_vars

\* C20 amended: between two mounts of the feed page at most one decision handler
\* is started per product, by a drag or by an arrow key: a decision starts only
\* on a product not yet marked as swiped and marks it, and the marks are only
\* dropped when the page is mounted anew. A handler started under an earlier
\* mount may still be in flight when the same product is decided again.
C20_OneHandlerPerProductPerMount ==
    [][/\ \A t \in Tabs, p \in Products, dir \in {"left", "right"} :
             handlers' = handlers (+) SetToBag({Decision(t, p, dir)})
             => p \notin swipedProducts[t] /\ p \in swipedProducts'[t]
       /\ \A t \in Tabs :
             \/ swipedProducts[t] \subseteq swipedProducts'[t]
             \/ /\ swipedProducts'[t] = {}
                /\ route'[t] # route[t] /\ session'[t] = NoSession]_vars

\* C20 witness: two decision handlers of the same user and product are in
\* flight, the later one started under the present mount of the page
C20_Witness ==
    \E t \in Tabs, g \in HandlerSet, h \in HandlerSet :
        /\ IsSwipe(g) /\ IsSwipe(h) /\ g.product = h.product
        /\ g.uid = session[t] /\ h.uid = session[t]
        /\ g # h \/ CopiesIn(g, handlers) > 1
        /\ g.product \in swipedProducts[t]

\* C12: a product whose name equals a deny-list entry up to letter case (such
\* as "Ripped Jeans") is never in the list the newest feed shows nor in the list
\* the seller dashboard shows, whatever the catalog holds.
C12_DeniedNamesNeverListed ==
    \A t \in Tabs, i \in 1..Len(products_table) :
        (/\ products_table[i].name \in {"Ripped Jeans", "RIPPED JEANS"}
         /\ \/ route[t] = "seller"
            \/ route[t] = "swipe" /\ flow = "precheck")
        => products_table[i].id \notin Range(products[t])

\* C12 witness: the seller has added a product named like a deny-list entry,
\* the row is stored, and the dashboard list, fetched again, shows other rows
C12_Witness ==
    \E t \in Tabs, i \in 1..Len(products_table) :
        /\ products_table[i].id = "p3"
        /\ products_table[i].name \in {"Ripped Jeans", "RIPPED JEANS"}
        /\ route[t] = "seller" /\ session[t] = products_table[i].seller_id
        /\ toast = <<"Product added successfully!">>
        /\ products[t] # <<>>

\* C14 as stated: the interaction log is append-only: every step, among them
\* the seller's add-product and delete-product, leaves the earlier records in
\* place.
C14_LogIsAppendOnly ==
    [][/\ Len(swipe_interactions') >= Len(swipe_interactions)
       /\ SubSeq(swipe_interactions', 1, Len(swipe_interactions)) = swipe_interactions]_vars

\* C15: the analytics the seller page holds count exactly the records whose
\* product belongs to the signed-in seller: totalViews all of them,
\* totalSwipesRight and totalSwipesLeft those of each action; records of other
\* sellers' products are not counted. (Until a fetch has come back the page
\* holds its initial zeros.)
C15_AnalyticsCountOwnRecords ==
    \A t \in Tabs :
        (route[t] = "seller" /\ session[t] # NoSession)
        => LET own == {products_table[i].id : i \in {j \in 1..Len(products_table) :
                           products_table[j].seller_id = session[t]}}
               of(actions) == Cardinality({i \in 1..Len(swipe_interactions) :
                                  /\ swipe_interactions[i].product_id \in own
                                  /\ swipe_interactions[i].action \in actions})
           IN  \/ /\ analytics[t].totalViews = 0
                  /\ analytics[t].totalSwipesRight = 0
                  /\ analytics[t].totalSwipesLeft = 0
               \/ /\ analytics[t].totalViews = of({"left", "right", "purchased"})
                  /\ analytics[t].totalSwipesRight = of({"right"})
                  /\ analytics[t].totalSwipesLeft = of({"left"})

\* C15 witness: three right-swipes and one left-swipe on the seller's products
\* and one record of another seller's product; the page holds 4, 3, 1
C15_Witness ==
    \E t \in Tabs :
        /\ route[t] = "seller" /\ session[t] # NoSession
        /\ Len(swipe_interactions) = MaxRecords
        /\ analytics[t].totalViews = 4
        /\ analytics[t].totalSwipesRight = 3
        /\ analytics[t].totalSwipesLeft = 1

\* C16: conversionRate is "0" when totalViews is 0; otherwise it is the decimal
\* with one fraction digit nearest to totalSwipesRight / totalViews * 100, and
\* lies between 0 and 100.
C16_ConversionRateRounded ==
    \A t \in Tabs :
        LET v == analytics[t].totalViews
            r == analytics[t].totalSwipesRight
            c == conversionRate(analytics[t])
        IN  IF v = 0 THEN c = "0"
            ELSE \E q \in {(1000 * r) \div v, (1000 * r) \div v + 1} :
                    /\ q >= 0 /\ q <= 1000
                    /\ 2 * Abs(q * v - 1000 * r) <= v
                    /\ c = ToString(q \div 10) \o "." \o ToString(q % 10)

\* C16 witness: two right-swipes in three views, shown as 66.7
C16_Witness ==
    \E t \in Tabs :
        /\ route[t] = "seller"
        /\ analytics[t].totalViews = 3 /\ analytics[t].totalSwipesRight = 2
        /\ conversionRate(analytics[t]) = "66.7"

C18_OnlySellersInsertProducts ==
    [][/\ \A h \in HandlerSet :
             (h.kind = "addProduct" /\ handlers' = Finish(h) /\ profiles[h.uid] # "seller")
             => /\ products_table' = products_table
                /\ toast' = <<"Error adding product">>
       /\ \A i \in 1..Len(products_table') :
             products_table'[i] \notin Range(products_table)
             => \E h \in HandlerSet :
                   /\ h.kind = "addProduct" /\ handlers' = Finish(h)
                   /\ products_table'[i].seller_id = h.uid
                   /\ h.uid = account[h.tab]
                   /\ profiles[h.uid] = "seller"]_vars

\* C18 witness: the insert of an account of role user came back refused
C18_Witness ==
    /\ toast = <<"Error adding product">> /\ net = "ok"
    /\ \E t \in Tabs :
          route[t] = "seller" /\ session[t] # NoSession /\ profiles[session[t]] = "user"

\* C21: checkout takes the lines of the cart list as it stands at the click, in
\* order; each turn attempts the purchased insert of the first remaining line
\* and goes on to the next whatever the insert returned, touching no cart row
\* and no route; only when no line remains does it issue the delete of the
\* user's cart rows and go to the feed.
C21_CheckoutAttemptsEveryLineInOrder ==
    [][/\ \A t \in Tabs, h \in BagToSet(handlers') :
             (h.kind = "checkout" /\ handlers' = handlers (+) SetToBag({h}))
             => /\ h.pc = "purchase" /\ h.tab = t /\ h.uid = session[t]
                /\ h.todo = [i \in 1..Len(cartItems[t]) |-> cartItems[t][i].product_id]
                /\ UNCHANGED <<dbvars, route>>
       /\ \A h \in HandlerSet :
             (h.kind = "checkout" /\ h.pc = "purchase"
                /\ CopiesIn(h, handlers') < CopiesIn(h, handlers))
             => /\ h.todo # <<>>
                /\ swipe_interactions' \in
                      {swipe_interactions,
                       Append(swipe_interactions,
                              [user_id |-> h.uid, product_id |-> Head(h.todo),
                               action |-> "purchased"])}
                /\ UNCHANGED <<cart_items, saved_items, route>>
                /\ handlers' = Step(h, [h EXCEPT
                                   !.todo = Tail(h.todo),
                                   !.pc = IF Len(h.todo) = 1 THEN "clear" ELSE "purchase"])
       /\ \A h \in HandlerSet :
             (h.kind = "checkout" /\ h.pc = "clear"
                /\ CopiesIn(h, handlers') < CopiesIn(h, handlers))
             => /\ h.todo = <<>>
                /\ UNCHANGED swipe_interactions
                /\ route[h.tab] = "cart" => route'[h.tab] = "swipe"]_vars

\* C21 witness: the first of two purchase inserts has failed and the checkout
\* is about to attempt the second line
C21_Witness ==
    /\ net = "failed"
    /\ \E h \in HandlerSet :
          /\ h.kind = "checkout" /\ h.pc = "purchase" /\ Len(h.todo) = 1
          /\ Len(cartItems[h.tab]) = 2
          /\ cartItems[h.tab][2].product_id = h.todo[1]

\* C22 as stated: the seller dashboard applies the deny-list and dedup rule of
\* the feed: the list it shows when its fetch comes back is what the feed's
\* filter returns for the rows fetched, also for names with surrounding blanks
\* and mixed case.
C22_SellerFilterIsFeedFilter ==
    [][\A t \in Tabs :
          (/\ route[t] = "seller" /\ session[t] = NoSession
           /\ session'[t] # NoSession /\ net' = "ok")
          => products'[t] \in
                {Ids(FeedFilter(rows)) :
                    rows \in Orders(Range(SellerRows(products_table', session'[t])))}]_vars

\* C23: when the feed's fetch comes back, the candidate sequence is the fetched
\* list (newest first) without the deny-listed names and without later rows
\* whose trimmed, case-folded name an earlier kept row has: it keeps the order
\* of the fetched list, no two entries share a normalized name, and every row
\* left out is deny-listed or repeats an earlier row's name. The visible
\* sequence is the candidate sequence without the decided products, in the
\* same order.
C23_CandidatesFilteredAndVisibleInOrder ==
    [][\A t \in Tabs :
          LET idx(p) == CHOOSE i \in 1..Len(products_table) : products_table[i].id = p
              same(a, b) == a = b \/ {a, b} = {"TEE", " Tee"}
              denied(i) == products_table[i].name = "Ripped Jeans"
              c == products'[t]
              v == visibleProducts(t)'
          IN  /\ (route[t] = "swipe" /\ net' = "ok" /\ session'[t] # NoSession
                    /\ handlers' = handlers /\ swipedProducts' = swipedProducts)
                 => /\ \A j \in 1..Len(c) :
                          /\ \E i \in 1..Len(products_table) : products_table[i].id = c[j]
                          /\ ~denied(idx(c[j]))
                          /\ \A k \in 1..Len(c) :
                                j < k => /\ idx(c[j]) < idx(c[k])
                                         /\ ~same(products_table[idx(c[j])].name,
                                                  products_table[idx(c[k])].name)
                    /\ \A i \in 1..Len(products_table) :
                          \/ products_table[i].id \in Range(c)
                          \/ denied(i)
                          \/ \E e \in 1..(i - 1) :
                                /\ products_table[e].id \in Range(c)
                                /\ same(products_table[e].name, products_table[i].name)
              /\ Range(v) = Range(c) \ swipedProducts'[t]
              /\ \A j \in 1..Len(v), k \in 1..Len(v) :
                    j < k => \E a \in 1..Len(c), b \in 1..Len(c) :
                                a < b /\ c[a] = v[j] /\ c[b] = v[k]]_vars

\* C23 witness: of two rows named alike up to case and blanks the feed holds
\* the newer one only, and that product has been decided
C23_Witness ==
    \E t \in Tabs :
        /\ products_table[1].name = "TEE" /\ products_table[2].name = " Tee"
        /\ route[t] = "swipe" /\ session[t] # NoSession
        /\ products[t] = <<"p1">> /\ swipedProducts[t] = {"p1"}
        /\ visibleProducts(t) = <<>>

\* C24: delete-product changes the seller's list only when its delete has
\* returned without error, and the product it takes off the list is then no
\* longer stored; when the delete returns an error, "Error deleting product"
\* is shown and the list and the stored products are as they were; a delete
\* removes no product of another seller.
C24_DeleteAfterConfirmation ==
    [][\A h \in HandlerSet :
          (/\ h.kind = "deleteProduct"
           /\ CopiesIn(h, handlers') < CopiesIn(h, handlers)
           /\ BagCardinality(handlers') < BagCardinality(handlers))
          => /\ products' # products
                => /\ net' = "ok"
                   /\ \A i \in 1..Len(products_table') : products_table'[i].id # h.product
             /\ net' = "failed"
                => /\ toast' = <<"Error deleting product">>
                   /\ UNCHANGED <<products, products_table, swipe_interactions>>
             /\ \A i \in 1..Len(products_table) :
                   products_table[i] \notin Range(products_table')
                   => /\ products_table[i].seller_id = h.uid
                      /\ products_table[i].id = h.product]_vars

\* C24 witness: a delete has failed; the product is still stored and still on
\* the seller's list
C24_Witness ==
    /\ toast = <<"Error deleting product">> /\ net = "failed"
    /\ \E t \in Tabs, i \in 1..Len(products_table) :
          /\ route[t] = "seller" /\ products_table[i].seller_id = session[t]
          /\ products_table[i].id \in Range(products[t])

\* C25: when the feed's product fetch fails, "Error loading products" is shown
\* and the candidate list stays as it was; the list changes only in a fetch
\* that a session event of the mounted feed issued and that succeeded, or when
\* the page is mounted anew with an empty list: no handler step and no
\* gesture fetches again.
C25_FailedFetchKeepsListAndIsNotRetried ==
    [][\A t \in Tabs :
          LET fetch == /\ route[t] = "swipe" /\ route' = route
                       /\ session'[t] # NoSession
                       /\ handlers' = handlers /\ net' # "none"
          IN  /\ (fetch /\ net' = "failed")
                 => /\ toast' = <<"Error loading products">>
                    /\ products'[t] = products[t]
              /\ products'[t] # products[t]
                 => \/ fetch /\ net' = "ok"
                    \/ route'[t] # route[t] /\ products'[t] = <<>>]_vars

\* C25 witness: a fetch of the mounted feed has failed after an earlier one had
\* loaded the list; the list is still shown
C25_Witness ==
    /\ toast = <<"Error loading products">> /\ net = "failed"
    /\ \E t \in Tabs : route[t] = "swipe" /\ session[t] # NoSession /\ products[t] # <<>>

\* C26: every cart row that a checkout's delete removes is a row of a product
\* that is among the lines the same checkout took from the cart list when it
\* started, the lines it attempted a "purchased" insert for.
C26_CheckoutDeletesOnlyAttemptedLines ==
    [][\A h \in HandlerSet :
          (/\ h.kind = "checkout" /\ h.pc = "clear"
           /\ CopiesIn(h, handlers') < CopiesIn(h, handlers)
           /\ BagCardinality(handlers') < BagCardinality(handlers))
          => \A r \in cart_items \ cart_items' : r.product_id \in Range(h.items)]_vars

\* C27: move-to-cart does not lose the product by its own steps. Its upsert
\* step removes no cart row and no saved row of the pair, and the handler goes
\* on to the saved delete only if the upsert returned without error, the pair
\* then having a cart row; its delete step touches no cart row. So, with no
\* other operation removing the pair's cart row in between, the pair has a cart
\* row or a saved row before and after each of the two steps, whatever they
\* return.
C27_MoveNeverLosesProduct ==
    [][\A h \in HandlerSet :
          LET next == [h EXCEPT !.pc = "savedDeleteId"]
              pair(rows) == PairRows(rows, h.uid, h.product)
          IN  /\ (/\ h.kind = "move" /\ h.pc = "cartUpsert"
                  /\ handlers' \in {Finish(h), Step(h, next)})
                 => /\ saved_items' = saved_items
                    /\ pair(cart_items) \subseteq pair(cart_items')
                    /\ handlers' = Step(h, next) => net' = "ok" /\ pair(cart_items') # {}
                    /\ net' = "failed" => handlers' = Finish(h)
                    /\ (pair(cart_items) # {} \/ pair(saved_items) # {})
                          => (pair(cart_items') # {} \/ pair(saved_items') # {})
              /\ (/\ h.kind = "move" /\ h.pc = "savedDeleteId"
                  /\ handlers' = ScrubHandlers(Finish(h), cart_items, saved_items'))
                 => /\ cart_items' = cart_items
                    /\ pair(cart_items) # {} => pair(cart_items') # {}]_vars

\* C27 witness: between the two writes of a move, the upsert having returned
\* without error: the pair has its cart row and still its saved row
C27_Witness ==
    \E h \in HandlerSet :
       /\ h.kind = "move" /\ h.pc = "savedDeleteId"
       /\ PairRows(cart_items, h.uid, h.product) # {}
       /\ \E r \in saved_items : r.id = h.rowId /\ r.product_id = h.product

\* C28: every stored cart row has quantity 1.
C28_QuantityIsOne == \A r \in cart_items : r.quantity = 1

\* C28 witness: the cart holds a row for each of two products, and a further
\* write on one of the pairs is in flight
C28_Witness ==
    /\ \E r1, r2 \in cart_items : r1.product_id # r2.product_id
    /\ \E h \in HandlerSet, r \in cart_items :
          /\ h.pc \in {"cartUpsert", "cartInsert", "cartInsertNull"}
          /\ h.uid = r.user_id /\ h.product = r.product_id

\* C29: a session loss cancels no suspended handler: each handler in flight is
\* still in flight after it, at the same call and with the user id it took at
\* its start, and every cart or saved row written afterwards carries the user
\* id and the product of a decision handler in flight, whatever the session
\* state of its page is by then; with a null session no product joins the
\* decided set and no decision handler starts.
C29_SessionLossCancelsNothing ==
    [][/\ \A t \in Tabs :
             (session[t] # NoSession /\ session'[t] = NoSession)
             => /\ BagCardinality(handlers') = BagCardinality(handlers)
                /\ \A h \in HandlerSet :
                      \E g \in BagToSet(handlers') :
                         /\ g = [h EXCEPT !.live = g.live]
                         /\ CopiesIn(g, handlers') >= CopiesIn(h, handlers)
       /\ \A r \in (cart_items' \ cart_items) \cup (saved_items' \ saved_items) :
             \E h \in HandlerSet :
                /\ h.kind \in {"swipe", "swipeUpsert"}
                /\ CopiesIn(h, handlers') < CopiesIn(h, handlers)
                /\ r.user_id = h.uid /\ r.product_id = h.product
       /\ \A t \in Tabs :
             session[t] = NoSession
             => /\ swipedProducts'[t] \subseteq swipedProducts[t]
                /\ \A g \in BagToSet(handlers') :
                      (g.tab = t /\ g.pc = "log")
                      => CopiesIn(g, handlers') <= CopiesIn(g, handlers)]_vars

\* C29 witness: the session is lost and the page gone, and the cart write of a
\* right swipe taken before the loss has just stored its row
C29_Witness ==
    \E t \in Tabs :
       /\ route[t] = "auth" /\ session[t] = NoSession
       /\ net = "ok" /\ toast = <<"Added to cart!">>
       /\ \E r \in cart_items : r.user_id = account[t]

\* C30: every call returning, a checkout in flight comes to its end; it ends
\* with "Checkout complete!" shown, the local cart list empty and the tab at
\* /swipe (unless the tab has been signed out meanwhile), whatever its calls
\* returned; and a checkout starts, so writes or redirects, only from a cart
\* page with a session and a non-empty list.
C30_CheckoutTerminates ==
    /\ (\E h \in HandlerSet : h.kind = "checkout")
          ~> (\A h \in HandlerSet : h.kind # "checkout")
    /\ [][\A h \in HandlerSet \cup BagToSet(handlers') :
             /\ (/\ h.kind = "checkout" /\ h.pc = "clear"
                 /\ CopiesIn(h, handlers') < CopiesIn(h, handlers)
                 /\ BagCardinality(handlers') < BagCardinality(handlers))
                => /\ toast' = <<"Checkout complete!">>
                   /\ cartItems'[h.tab] = <<>>
                   /\ route[h.tab] # "auth" => route'[h.tab] = "swipe"
             /\ (/\ h.kind = "checkout"
                 /\ CopiesIn(h, handlers') > CopiesIn(h, handlers)
                 /\ BagCardinality(handlers') > BagCardinality(handlers))
                => /\ session[h.tab] # NoSession /\ cartItems[h.tab] # <<>>
                   /\ h.pc = "purchase" /\ h.todo # <<>>
                   /\ UNCHANGED <<dbvars, route>>]_vars

\* C30 witness: a checkout has just ended whose delete failed: the rows are
\* still stored, the completion is shown and the tab is at /swipe
C30_Witness ==
    /\ toast = <<"Checkout complete!">> /\ net = "failed"
    /\ cart_items # {}
    /\ \E t \in Tabs : route[t] = "swipe" /\ cartItems[t] = <<>>
    /\ \A h \in HandlerSet : h.kind # "checkout"

============================================================================
